---- MODULE Spec2Model ----
(***************************************************************************)
(* Conversation store, chat service and websocket registry of the          *)
(* marketplace backend (src/app).                                          *)
(*                                                                         *)
(* Every HTTP request runs in its own AsyncSession (get_db): the handler   *)
(* runs, then the session is committed.  The store is PostgreSQL at its    *)
(* default isolation level (READ COMMITTED): a SELECT sees what is         *)
(* committed when it runs, an UPDATE waits for the row lock of an          *)
(* uncommitted UPDATE of the same row and then writes its own values.      *)
(* The ORM keeps the attribute values of a row as first loaded in the      *)
(* session, and a flush writes only the columns whose value differs from   *)
(* the loaded one, as absolute values.                                     *)
(***************************************************************************)
EXTENDS Integers, Sequences, FiniteSets, TLC

\* ---- bounds of the model ----
MaxMsgs == 2      \* message ids handed out by the messages sequence
MaxConvs == 2     \* conversation ids handed out by the conversations sequence
MaxClock == 1     \* ticks of the wall clock

Procs == {1, 2}           \* concurrent requests (sessions)
Users == {1, 2, 3}        \* rows of the users table
Pair == {1, 2}            \* the users who start conversations with each other
UserIds == Users \cup {4} \* ids a client can name; 4 is no user
ConvIds == 1 .. MaxConvs   \* conversation ids a client can name
Conns == {1, 2, 3}        \* websocket connections
Senders == {1}            \* concurrent send_to_user calls
WsUsers == {1, 2}         \* users who open websockets
ChatConns == {1}          \* websocket connections open while requests run

\* ---- Optional[...] values ----
None == <<>>
Some(x) == <<x>>
Texts == {<<1>>}                    \* str values: a one-character text
Contents == {None} \cup {Some(t) : t \in Texts}
Truthy(opt) == opt # None /\ Len(opt[1]) > 0

PreviewLen == 200
ImageText == <<91, 73, 109, 97, 103, 101, 93>>   \* the literal "[Image]"
Min(a, b) == IF a < b THEN a ELSE b

\* (data.content or "[Image]")[:200]
Preview(content) ==
    LET s == IF Truthy(content) THEN content[1] ELSE ImageText
    IN  SubSeq(s, 1, Min(Len(s), PreviewLen))

VARIABLES
    conversations,      \* committed rows of table conversations: id -> row
    messages,           \* committed rows of table messages: id -> row
    conv_seq,           \* last value of the conversations id sequence
    msg_seq,            \* last value of the messages id sequence
    sess,               \* per request: handler position and ORM session
    clock,              \* wall clock (utcnow / now())
    active_connections, \* dict user_id -> set of websockets
    ws,                 \* per connection: state of its websocket_endpoint handler
    snd                 \* per send_to_user call: position and set iterator

vars == <<conversations, messages, conv_seq, msg_seq, sess, clock,
          active_connections, ws, snd>>
storeVars == <<conversations, messages, conv_seq, msg_seq, sess, clock>>
wsVars == <<active_connections, ws, snd>>

\* ---- rows ----
ConvCols == {"last_message_text", "last_message_at", "last_sender_id",
             "unread_count_user1", "unread_count_user2", "is_blocked", "blocked_by"}

\* Conversation(user1_id=..., user2_id=...) with the column defaults
NewConversation(u1, u2, now) ==
    [user1_id |-> u1, user2_id |-> u2,
     last_message_text |-> None, last_message_at |-> now, last_sender_id |-> None,
     unread_count_user1 |-> 0, unread_count_user2 |-> 0,
     is_blocked |-> FALSE, blocked_by |-> None]

\* Message(conversation_id=..., sender_id=..., content=...) with the column defaults
NewMessage(cid, sender, content, now) ==
    [conversation_id |-> cid, sender_id |-> sender, content |-> content,
     is_read |-> FALSE, read_at |-> None, is_deleted |-> FALSE, created_at |-> now]

\* Conversation.get_other_user_id
get_other_user_id(row, uid) ==
    IF row.user1_id = uid THEN row.user2_id ELSE row.user1_id

\* Conversation.get_unread_count
get_unread_count(row, uid) ==
    IF uid = row.user1_id THEN row.unread_count_user1 ELSE row.unread_count_user2

\* ---- sessions ----
IdleSess ==
    [pc |-> "idle", op |-> "none", user |-> 0, other |-> 0, conv |-> 0,
     content |-> None, block |-> FALSE,
     seen |-> None,        \* the conversation row as loaded (ORM committed state)
     obj |-> None,         \* the conversation object as the handler has changed it
     new_conv |-> FALSE,   \* the row is this session's own uncommitted INSERT
     flushed |-> {},       \* columns of an UPDATE flushed and not yet committed
     new_msg |-> None,     \* the message row inserted and not yet committed
     marked |-> {},        \* ids of the messages mark_as_read has changed
     pre_unread |-> {},    \* unread incoming messages committed when mark_as_read began
     now |-> 0,            \* datetime.utcnow() taken by the service call
     txn_start |-> 0,      \* now() of the transaction
     limit |-> 0,          \* arguments of get_messages
     before_id |-> None,
     returned |-> <<>>,    \* the list get_messages returned: message ids
     count |-> 0,          \* the number get_total_unread returned
     result |-> "none"]

\* rows of conversations process p can see: the committed ones and its own INSERT
VisibleConvs(p) ==
    IF sess[p].new_conv THEN conversations @@ (sess[p].conv :> sess[p].obj[1])
    ELSE conversations

\* another session holds the row lock of conversation cid (a flushed UPDATE)
LockedByOther(p, cid) ==
    \E q \in Procs \ {p} :
        sess[q].conv = cid /\ ~sess[q].new_conv /\ sess[q].flushed # {}

\* another session holds the entry (u1, u2) of idx_conversation_users uncommitted
InsertPendingByOther(p, u1, u2) ==
    \E q \in Procs \ {p} :
        sess[q].new_conv /\ sess[q].obj[1].user1_id = u1 /\ sess[q].obj[1].user2_id = u2

\* columns a flush writes: those whose value differs from the loaded one
Dirty(seen, obj) == {c \in ConvCols : seen[c] # obj[c]}

\* the row after an UPDATE of the columns cols with the values of obj
ApplyUpdate(row, cols, obj) ==
    [c \in DOMAIN row |-> IF c \in cols THEN obj[c] ELSE row[c]]

\* ---- ChatService ----
\* canonical ordering of get_or_create_conversation
CanonNoSwap(a, b) == <<a, b>>
Canon(a, b) == IF a > b THEN <<b, a>> ELSE <<a, b>>

\* select(Conversation).where(user1_id == u1, user2_id == u2): the matching ids
FindPair(rows, u1, u2) ==
    {i \in DOMAIN rows : rows[i].user1_id = u1 /\ rows[i].user2_id = u2}

\* idx_conversation_users (unique=True) rejects a second row (u1, u2)
NotUnique(rows, u1, u2) == FALSE
UniqueConflict(rows, u1, u2) == FindPair(rows, u1, u2) # {}

\* get_conversation_by_id: the row if it exists and user_id is a participant
get_conversation_by_id(rows, cid, uid) ==
    IF cid \in DOMAIN rows /\ (rows[cid].user1_id = uid \/ rows[cid].user2_id = uid)
    THEN Some(rows[cid]) ELSE None

\* ---- websocket registry ----
\* a connection nobody has opened yet
NewWs == [pc |-> "new", user |-> 0, gone |-> FALSE, raised |-> None]

\* no send_to_user call in progress
IdleSend ==
    [pc |-> "idle", user |-> 0,
     set |-> 0,            \* the set object the for loop iterates
     si_used |-> 0,        \* its size when the iterator was made
     start |-> {},         \* its elements when the iterator was made
     visited |-> {},       \* the connections the loop has taken
     delivered |-> {},     \* the connections send_text succeeded on
     dead_connections |-> {},
     result |-> None,      \* the value the call returns (the function has no return)
     raised |-> None]

Init ==
    /\ conversations = <<>>
    /\ messages = <<>>
    /\ conv_seq = 0
    /\ msg_seq = 0
    /\ sess = [p \in Procs |-> IdleSess]
    /\ clock = 0
    /\ active_connections = <<>>
    /\ ws = [w \in Conns |-> NewWs]
    /\ snd = [s \in Senders |-> IdleSend]

\* the wall clock advances
Tick ==
    /\ clock < MaxClock
    /\ clock' = clock + 1
    /\ UNCHANGED <<conversations, messages, conv_seq, msg_seq, sess, wsVars>>

\* the handler of session s has ended with res.  After the commit ("ok") the
\* response is sent and the session closed; an exception (a status code) is on its
\* way through get_db, which rolls back what the session has written
Ended(s, res) ==
    IF res = "ok" THEN IdleSess
    ELSE [IdleSess EXCEPT !.pc = "failed", !.op = s.op, !.user = s.user,
                          !.other = s.other, !.conv = s.conv, !.result = res]

\* get_db: rollback and re-raise; the error response is sent, the session closed
Respond(p) ==
    /\ sess[p].pc = "failed"
    /\ sess' = [sess EXCEPT ![p] = IdleSess]
    /\ UNCHANGED <<conversations, messages, conv_seq, msg_seq, clock, wsVars>>

\* "if data.recipient_id == current_user.id"
NeverSelf(u, r) == FALSE
SelfConversation(u, r) == r = u

\* POST /conversations: start_conversation up to the SELECT of
\* get_or_create_conversation
StartConversation(p, u, r, msg) ==
    /\ sess[p].pc = "idle"
    /\ LET base == [IdleSess EXCEPT !.op = "start", !.user = u, !.other = r,
                        !.content = msg, !.txn_start = clock]
           pair == Canon(u, r)
           found == FindPair(conversations, pair[1], pair[2])
       IN  IF SelfConversation(u, r)
           THEN sess' = [sess EXCEPT ![p] = Ended(base, "400")]
           ELSE IF found # {}
                THEN LET cid == CHOOSE i \in found : TRUE
                     IN  sess' = [sess EXCEPT ![p] = [base EXCEPT
                             !.pc = IF Truthy(msg) THEN "send_message" ELSE "commit",
                             !.conv = cid,
                             !.seen = Some(conversations[cid]),
                             !.obj = Some(conversations[cid])]]
                ELSE sess' = [sess EXCEPT ![p] = [base EXCEPT !.pc = "insert"]]
    /\ UNCHANGED <<conversations, messages, conv_seq, msg_seq, clock, wsVars>>

\* get_or_create_conversation: Conversation(...), add, flush, refresh.
\* (Ids are opaque: a failed INSERT is not modelled as using up a sequence value.)
StartInsert(p) ==
    LET s == sess[p]
        pair == Canon(s.user, s.other)
    IN  /\ s.pc = "insert"
        /\ ~InsertPendingByOther(p, pair[1], pair[2])
        /\ conv_seq < MaxConvs
        /\ IF UniqueConflict(conversations, pair[1], pair[2]) \/ s.other \notin Users
           THEN \* IntegrityError (unique index or foreign key): get_db rolls back
                /\ sess' = [sess EXCEPT ![p] = Ended(s, "500")]
                /\ conv_seq' = conv_seq
           ELSE /\ conv_seq' = conv_seq + 1
                /\ LET row == NewConversation(pair[1], pair[2], s.txn_start)
                   IN  sess' = [sess EXCEPT ![p] = [s EXCEPT
                        !.pc = IF Truthy(s.content) THEN "send_message" ELSE "commit",
                        !.conv = conv_seq + 1, !.new_conv = TRUE,
                        !.seen = Some(row), !.obj = Some(row)]]
        /\ UNCHANGED <<conversations, messages, msg_seq, clock, wsVars>>

\* POST /conversations/{id}/messages: send_message up to the call of the service
SendMessage(p, u, cid, content) ==
    /\ sess[p].pc = "idle"
    /\ LET base == [IdleSess EXCEPT !.op = "send", !.user = u, !.conv = cid,
                        !.content = content, !.txn_start = clock]
           conv == get_conversation_by_id(conversations, cid, u)
       IN  IF conv = None
           THEN sess' = [sess EXCEPT ![p] = Ended(base, "404")]
           ELSE IF conv[1].is_blocked
                THEN sess' = [sess EXCEPT ![p] = Ended(base, "403")]
                ELSE sess' = [sess EXCEPT ![p] = [base EXCEPT
                         !.pc = "send_message", !.seen = conv, !.obj = conv]]
    /\ UNCHANGED <<conversations, messages, conv_seq, msg_seq, clock, wsVars>>

\* which unread counter ChatService.send_message increments
BumpSender(row, sender) ==
    IF row.user1_id = sender THEN "unread_count_user1" ELSE "unread_count_user2"
BumpRecipient(row, sender) ==
    IF row.user1_id = sender THEN "unread_count_user2" ELSE "unread_count_user1"

\* ChatService.send_message, "Update conversation": the object after the assignments
Touched(row, sender, content, now) ==
    LET col == BumpRecipient(row, sender)
    IN  [row EXCEPT !.last_message_text = Some(Preview(content)),
                    !.last_message_at = now,
                    !.last_sender_id = Some(sender),
                    ![col] = @ + 1]

\* ChatService.send_message: Message(...), add, update of the conversation, flush
ServiceSendMessage(p) ==
    LET s == sess[p]
        rows == VisibleConvs(p)
        \* the identity map keeps the attributes of a row the session has loaded
        conv == IF s.obj # None THEN s.obj
                ELSE get_conversation_by_id(rows, s.conv, s.user)
        msg == NewMessage(s.conv, s.user, s.content, s.txn_start)
    IN  /\ s.pc = "send_message"
        /\ msg_seq < MaxMsgs
        /\ (conv # None /\ ~s.new_conv) => ~LockedByOther(p, s.conv)
        /\ IF s.conv \notin DOMAIN rows \/ s.user \notin Users
           THEN \* IntegrityError (foreign key of messages): get_db rolls back
                /\ sess' = [sess EXCEPT ![p] = Ended(s, "500")]
                /\ msg_seq' = msg_seq
           ELSE /\ msg_seq' = msg_seq + 1
                /\ IF conv = None
                   THEN sess' = [sess EXCEPT ![p] = [s EXCEPT !.pc = "commit",
                            !.new_msg = Some([id |-> msg_seq + 1, row |-> msg])]]
                   ELSE LET obj == Touched(conv[1], s.user, s.content, clock)
                        IN  sess' = [sess EXCEPT ![p] = [s EXCEPT !.pc = "commit",
                                !.seen = IF s.seen = None THEN conv ELSE s.seen,
                                !.obj = Some(obj),
                                !.now = clock,
                                !.flushed = IF s.new_conv THEN {} ELSE Dirty(conv[1], obj),
                                !.new_msg = Some([id |-> msg_seq + 1, row |-> msg])]]
        /\ UNCHANGED <<conversations, messages, conv_seq, clock, wsVars>>

\* unread messages of conversation cid that uid did not send
UnreadFor(msgs, cid, uid) ==
    {m \in DOMAIN msgs : /\ msgs[m].conversation_id = cid
                         /\ msgs[m].sender_id # uid
                         /\ msgs[m].is_read = FALSE}

\* POST /conversations/{id}/read: ChatService.mark_as_read, the lookup
MarkAsRead(p, u, cid) ==
    /\ sess[p].pc = "idle"
    /\ LET base == [IdleSess EXCEPT !.op = "read", !.user = u, !.conv = cid,
                        !.txn_start = clock]
           conv == get_conversation_by_id(conversations, cid, u)
       IN  IF conv = None
           THEN sess' = [sess EXCEPT ![p] = [base EXCEPT !.pc = "commit"]]
           ELSE sess' = [sess EXCEPT ![p] = [base EXCEPT !.pc = "mark_select",
                    !.seen = conv, !.obj = conv,
                    !.pre_unread = UnreadFor(messages, cid, u)]]
    /\ UNCHANGED <<conversations, messages, conv_seq, msg_seq, clock, wsVars>>

\* the counter of the other participant
ResetOther(row, uid) ==
    IF row.user1_id = uid THEN "unread_count_user2" ELSE "unread_count_user1"

\* the column mark_as_read resets
ResetOwn(row, uid) ==
    IF row.user1_id = uid THEN "unread_count_user1" ELSE "unread_count_user2"

\* ChatService.mark_as_read: select the unread messages, set is_read and read_at,
\* reset the counter (nothing is flushed before the commit)
MarkSelect(p) ==
    LET s == sess[p]
        col == ResetOwn(s.obj[1], s.user)
    IN  /\ s.pc = "mark_select"
        /\ sess' = [sess EXCEPT ![p] = [s EXCEPT !.pc = "commit",
                        !.marked = UnreadFor(messages, s.conv, s.user),
                        !.now = clock,
                        !.obj = Some([s.obj[1] EXCEPT ![col] = 0])]]
        /\ UNCHANGED <<conversations, messages, conv_seq, msg_seq, clock, wsVars>>

\* a block call that flips the flag instead of setting it
BlockToggled(row, u, block) ==
    [row EXCEPT !.is_blocked = ~row.is_blocked,
                !.blocked_by = IF ~row.is_blocked THEN Some(u) ELSE None]

\* "conversation.is_blocked = block", "blocked_by = user_id if block else None"
Blocked(row, u, block) ==
    [row EXCEPT !.is_blocked = block,
                !.blocked_by = IF block THEN Some(u) ELSE None]

\* ChatService.block_conversation
SetBlocked(p, op, u, cid, block) ==
    /\ sess[p].pc = "idle"
    /\ LET base == [IdleSess EXCEPT !.op = op, !.user = u, !.conv = cid,
                        !.block = block, !.txn_start = clock]
           conv == get_conversation_by_id(conversations, cid, u)
       IN  IF conv = None
           THEN sess' = [sess EXCEPT ![p] = Ended(base, "404")]
           ELSE sess' = [sess EXCEPT ![p] = [base EXCEPT !.pc = "commit",
                    !.seen = conv,
                    !.obj = Some(Blocked(conv[1], u, block))]]
    /\ UNCHANGED <<conversations, messages, conv_seq, msg_seq, clock, wsVars>>

\* POST /conversations/{id}/block
BlockConversation(p, u, cid) == SetBlocked(p, "block", u, cid, TRUE)

\* the messages table if the commit lost the session's INSERT
CommitMessagesNoInsert(s) ==
    [m \in DOMAIN messages |->
        IF m \in s.marked
        THEN [messages[m] EXCEPT !.is_read = TRUE, !.read_at = Some(s.now)]
        ELSE messages[m]]

\* the messages table after the session's INSERT and UPDATEs
CommitMessages(s) ==
    LET upd == [m \in DOMAIN messages |->
                   IF m \in s.marked
                   THEN [messages[m] EXCEPT !.is_read = TRUE, !.read_at = Some(s.now)]
                   ELSE messages[m]]
    IN  IF s.new_msg = None THEN upd
        ELSE upd @@ (s.new_msg[1].id :> s.new_msg[1].row)

\* get_db: session.commit() after the handler has returned (flushes what is pending)
Commit(p) ==
    LET s == sess[p]
        cols == IF s.obj = None THEN {} ELSE Dirty(s.seen[1], s.obj[1])
    IN  /\ s.pc = "commit"
        /\ (~s.new_conv /\ cols # {} /\ s.flushed = {}) => ~LockedByOther(p, s.conv)
        /\ conversations' =
              IF s.new_conv THEN conversations @@ (s.conv :> s.obj[1])
              ELSE IF cols # {}
                   THEN [conversations EXCEPT ![s.conv] = ApplyUpdate(@, cols, s.obj[1])]
                   ELSE conversations
        /\ messages' = CommitMessages(s)
        /\ sess' = [sess EXCEPT ![p] = Ended(s, "ok")]
        /\ UNCHANGED <<conv_seq, msg_seq, clock, wsVars>>

\* ---- reading messages ----
DefaultLimit == 50
Limits == {1, DefaultLimit}       \* limit arguments
BeforeIds == {None, Some(2)}      \* before_id arguments

\* the rows the query of get_messages selects ("if before_id:" skips None and 0)
Selected(msgs, cid, before_id) ==
    {m \in DOMAIN msgs :
        /\ msgs[m].conversation_id = cid
        /\ msgs[m].is_deleted = FALSE
        /\ (before_id # None /\ before_id[1] # 0) => m < before_id[1]}

\* order_by(desc(Message.created_at)): the orders the database may return the
\* rows S in; rows with equal created_at come in any order
DescOrders(msgs, S) ==
    {f \in [1 .. Cardinality(S) -> S] :
        /\ \A i, j \in DOMAIN f : i # j => f[i] # f[j]
        /\ \A i, j \in DOMAIN f : i < j => msgs[f[i]].created_at >= msgs[f[j]].created_at}

\* list(reversed(messages))
Reversed(s) == [i \in 1 .. Len(s) |-> s[Len(s) + 1 - i]]

\* ChatService.get_messages: the lists (of message ids) the call may return
get_messages(rows, msgs, cid, uid, limit, before_id) ==
    IF get_conversation_by_id(rows, cid, uid) = None THEN {<<>>}
    ELSE {Reversed(SubSeq(f, 1, Min(limit, Len(f)))) :
              f \in DescOrders(msgs, Selected(msgs, cid, before_id))}

\* GET /conversations/{id}: get_conversation up to the lookup of mark_as_read
GetConversation(p, u, cid) ==
    /\ sess[p].pc = "idle"
    /\ LET base == [IdleSess EXCEPT !.op = "get", !.user = u, !.conv = cid,
                        !.txn_start = clock]
           conv == get_conversation_by_id(conversations, cid, u)
       IN  IF conv = None
           THEN sess' = [sess EXCEPT ![p] = Ended(base, "404")]
           ELSE \E list \in get_messages(conversations, messages, cid, u,
                                         DefaultLimit, None) :
                    sess' = [sess EXCEPT ![p] = [base EXCEPT !.pc = "mark_select",
                        !.seen = conv, !.obj = conv,
                        !.limit = DefaultLimit, !.returned = list,
                        !.pre_unread = UnreadFor(messages, cid, u)]]
    /\ UNCHANGED <<conversations, messages, conv_seq, msg_seq, clock, wsVars>>

RECURSIVE SumOver(_, _)
\* the sum of f over the set S
SumOver(f, S) ==
    IF S = {} THEN 0
    ELSE LET x == CHOOSE y \in S : TRUE IN f[x] + SumOver(f, S \ {x})

\* the total of the unread counters of uid's side of the rows
SumOfUnread(rows, uid) ==
    SumOver([c \in DOMAIN rows |->
                IF rows[c].user1_id = uid THEN rows[c].unread_count_user1
                ELSE IF rows[c].user2_id = uid THEN rows[c].unread_count_user2
                ELSE 0], DOMAIN rows)

\* ChatService.get_total_unread: select count() of the conversations where uid is
\* user1 with unread_count_user1 > 0 or user2 with unread_count_user2 > 0
get_total_unread(rows, uid) ==
    Cardinality({c \in DOMAIN rows :
        \/ rows[c].user1_id = uid /\ rows[c].unread_count_user1 > 0
        \/ rows[c].user2_id = uid /\ rows[c].unread_count_user2 > 0})

\* GET /unread
GetUnreadCount(p, u) ==
    /\ sess[p].pc = "idle"
    /\ sess' = [sess EXCEPT ![p] = [IdleSess EXCEPT !.pc = "commit", !.op = "unread",
                    !.user = u, !.txn_start = clock,
                    !.count = get_total_unread(conversations, u)]]
    /\ UNCHANGED <<conversations, messages, conv_seq, msg_seq, clock, wsVars>>

\* ---- direct calls of the service, outside the routers ----
\* ChatService(db).get_messages(conversation_id, user_id, limit, before_id)
SvcGetMessages(p, cid, u, limit, before_id) ==
    /\ sess[p].pc = "idle"
    /\ \E list \in get_messages(conversations, messages, cid, u, limit, before_id) :
          sess' = [sess EXCEPT ![p] = [IdleSess EXCEPT !.pc = "commit",
                      !.op = "svc_get", !.user = u, !.conv = cid,
                      !.obj = get_conversation_by_id(conversations, cid, u),
                      !.seen = get_conversation_by_id(conversations, cid, u),
                      !.limit = limit, !.before_id = before_id,
                      !.returned = list, !.txn_start = clock]]
    /\ UNCHANGED <<conversations, messages, conv_seq, msg_seq, clock, wsVars>>

\* ChatService(db).send_message(conversation_id, sender_id, data), then commit
SvcSendMessage(p, cid, sender, content) ==
    /\ sess[p].pc = "idle"
    /\ sess' = [sess EXCEPT ![p] = [IdleSess EXCEPT !.pc = "send_message",
                    !.op = "svc_send", !.user = sender, !.conv = cid,
                    !.content = content, !.txn_start = clock]]
    /\ UNCHANGED <<conversations, messages, conv_seq, msg_seq, clock, wsVars>>

\* ChatService(db).block_conversation(conversation_id, user_id, block), then commit
SvcBlockConversation(p, u, cid, block) == SetBlocked(p, "svc_block", u, cid, block)

\* ---- websocket_endpoint and send_to_user ----
\* A set object is named by the connection whose registration created it; a set
\* removed from the dict by "del" is empty and stays so.

\* websocket.accept() and "Add to active connections"
WsConnect(w, u) ==
    /\ ws[w].pc = "new"
    /\ ws' = [ws EXCEPT ![w] = [@ EXCEPT !.pc = "open", !.user = u]]
    /\ active_connections' =
          IF u \notin DOMAIN active_connections
          THEN active_connections @@ (u :> [id |-> w, elems |-> {w}])
          ELSE [active_connections EXCEPT ![u].elems = @ \cup {w}]
    /\ UNCHANGED <<storeVars, snd>>

\* a frame the loop accepts: "typing", "read" and any other JSON object do nothing
WsFrame(w) ==
    /\ ws[w].pc = "open" /\ ~ws[w].gone
    /\ UNCHANGED vars

\* a frame json.loads or message.get raises on: the exception leaves the handler,
\* which has no handler for it, and the server closes the connection
WsBadFrame(w) ==
    /\ ws[w].pc = "open" /\ ~ws[w].gone
    /\ ws' = [ws EXCEPT ![w] = [@ EXCEPT !.pc = "ended", !.raised = Some("ValueError")]]
    /\ UNCHANGED <<storeVars, active_connections, snd>>

\* the client closes the connection
WsClientClose(w) ==
    /\ ws[w].pc = "open" /\ ~ws[w].gone
    /\ ws' = [ws EXCEPT ![w].gone = TRUE]
    /\ UNCHANGED <<storeVars, active_connections, snd>>

\* the dict after discard(websocket) and "del" of an empty set
Unregistered(conns, u, w) ==
    IF conns[u].elems \ {w} = {}
    THEN [v \in DOMAIN conns \ {u} |-> conns[v]]
    ELSE [conns EXCEPT ![u].elems = @ \ {w}]

\* except WebSocketDisconnect: discard, and del when the set is empty
WsDisconnect(w) ==
    LET u == ws[w].user
    IN  /\ ws[w].pc = "open" /\ ws[w].gone
        /\ IF u \notin DOMAIN active_connections
           THEN /\ ws' = [ws EXCEPT ![w] = [@ EXCEPT !.pc = "ended",
                                               !.raised = Some("KeyError")]]
                /\ UNCHANGED active_connections
           ELSE /\ ws' = [ws EXCEPT ![w].pc = "ended"]
                /\ active_connections' = Unregistered(active_connections, u, w)
        /\ UNCHANGED <<storeVars, snd>>

\* ws.send_text succeeds on a connection whose client is there and whose handler runs
SendOk(w) == ws[w].pc = "open" /\ ~ws[w].gone

\* the elements of the set object the loop of call s iterates
IterSet(s) ==
    LET u == snd[s].user
    IN  IF u \in DOMAIN active_connections /\ active_connections[u].id = snd[s].set
        THEN active_connections[u].elems ELSE {}

\* send_to_user: "if user_id in active_connections", json.dumps, iter(set)
SendToUser(s, u) ==
    /\ snd[s].pc = "idle"
    /\ u \in DOMAIN active_connections
    /\ snd' = [snd EXCEPT ![s] = [IdleSend EXCEPT !.pc = "loop", !.user = u,
                   !.set = active_connections[u].id,
                   !.si_used = Cardinality(active_connections[u].elems),
                   !.start = active_connections[u].elems]]
    /\ UNCHANGED <<storeVars, active_connections, ws>>

\* send_to_user for a user without an entry returns at once
SendToAbsent(s, u) ==
    /\ snd[s].pc = "idle"
    /\ u \notin DOMAIN active_connections
    /\ snd' = [snd EXCEPT ![s] = [IdleSend EXCEPT !.pc = "done", !.user = u]]
    /\ UNCHANGED <<storeVars, active_connections, ws>>

\* "active_connections[user_id] -= dead_connections"
CleanUp(conns, u, dead) == [conns EXCEPT ![u].elems = @ \ dead]

\* one round of the for loop: next() of the set iterator, then send_text in its
\* try/except, up to the await; or the end of the loop and the clean-up.
\* The iterator raises when the size of the set is not the one it started with;
\* an element added since (with one removed) is met or not, by its hash slot.
SendStep(s) ==
    LET it == snd[s]
        cur == IterSet(s)
        old == (cur \cap it.start) \ it.visited
        new == (cur \ it.start) \ it.visited
    IN  /\ it.pc = "loop"
        /\ IF Cardinality(cur) # it.si_used
           THEN /\ snd' = [snd EXCEPT ![s] = [it EXCEPT !.pc = "done",
                                                 !.raised = Some("RuntimeError")]]
                /\ UNCHANGED active_connections
           ELSE \/ \E w \in old \cup new :
                      /\ snd' = [snd EXCEPT ![s] = [it EXCEPT
                            !.visited = @ \cup {w},
                            !.delivered = IF SendOk(w) THEN @ \cup {w} ELSE @,
                            !.dead_connections = IF SendOk(w) THEN @ ELSE @ \cup {w}]]
                      /\ UNCHANGED active_connections
                \/ /\ old = {}
                   /\ IF it.user \notin DOMAIN active_connections
                      THEN /\ snd' = [snd EXCEPT ![s] = [it EXCEPT !.pc = "done",
                                                  !.raised = Some("KeyError")]]
                           /\ UNCHANGED active_connections
                      ELSE /\ snd' = [snd EXCEPT ![s].pc = "done"]
                           /\ active_connections' =
                                 CleanUp(active_connections, it.user, it.dead_connections)
        /\ UNCHANGED <<storeVars, ws>>

\* the caller of send_to_user goes on
SendReturn(s) ==
    /\ snd[s].pc = "done"
    /\ snd' = [snd EXCEPT ![s] = IdleSend]
    /\ UNCHANGED <<storeVars, active_connections, ws>>

WsNext ==
    \/ \E w \in Conns, u \in WsUsers : WsConnect(w, u)
    \/ \E w \in Conns : WsFrame(w)
    \/ \E w \in Conns : WsBadFrame(w)
    \/ \E w \in Conns : WsClientClose(w)
    \/ \E w \in Conns : WsDisconnect(w)
    \/ \E s \in Senders, u \in WsUsers : SendToUser(s, u)
    \/ \E s \in Senders, u \in WsUsers : SendToAbsent(s, u)
    \/ \E s \in Senders : SendStep(s)
    \/ \E s \in Senders : SendReturn(s)

HttpNext ==
    \/ \E p \in Procs, u \in Pair, r \in Pair, msg \in Contents :
          StartConversation(p, u, r, msg)
    \/ \E p \in Procs : StartInsert(p)
    \/ \E p \in Procs, u \in Users, cid \in ConvIds, content \in Contents :
          SendMessage(p, u, cid, content)
    \/ \E p \in Procs : ServiceSendMessage(p)
    \/ \E p \in Procs, u \in Users, cid \in ConvIds : MarkAsRead(p, u, cid)
    \/ \E p \in Procs : MarkSelect(p)
    \/ \E p \in Procs, u \in Users, cid \in ConvIds : BlockConversation(p, u, cid)
    \/ \E p \in Procs : Commit(p)
    \/ \E p \in Procs : Respond(p)

Next == HttpNext

\* one session at a time, calling the routers and the service
ServiceNext ==
    \E p \in {1} :
        \/ \E u \in Pair, r \in Pair, msg \in Contents : StartConversation(p, u, r, msg)
        \/ StartInsert(p)
        \/ \E u \in Users, cid \in ConvIds, content \in Contents :
              SendMessage(p, u, cid, content)
        \/ ServiceSendMessage(p)
        \/ \E u \in Users, cid \in ConvIds : MarkAsRead(p, u, cid)
        \/ MarkSelect(p)
        \/ \E u \in Users, cid \in ConvIds : BlockConversation(p, u, cid)
        \/ Commit(p)
        \/ Respond(p)
        \/ \E cid \in ConvIds, u \in UserIds, content \in Contents :
              SvcSendMessage(p, cid, u, content)
        \/ \E u \in Users, cid \in ConvIds, b \in BOOLEAN :
              SvcBlockConversation(p, u, cid, b)

\* one session at a time, reading and writing while websockets open and close and
\* the clock runs
ChatNext ==
    \/ \E p \in {1} :
          \/ \E u \in Pair, r \in Pair, msg \in Contents : StartConversation(p, u, r, msg)
          \/ StartInsert(p)
          \/ \E u \in Users, cid \in ConvIds, content \in Contents :
                SendMessage(p, u, cid, content)
          \/ ServiceSendMessage(p)
          \/ \E u \in Users, cid \in ConvIds : MarkAsRead(p, u, cid)
          \/ \E u \in Users, cid \in ConvIds : GetConversation(p, u, cid)
          \/ MarkSelect(p)
          \/ Commit(p)
          \/ Respond(p)
          \/ \E cid \in ConvIds, u \in Users, limit \in Limits, before_id \in BeforeIds :
                SvcGetMessages(p, cid, u, limit, before_id)
    \/ Tick
    \/ \E w \in ChatConns, u \in Pair : WsConnect(w, u)
    \/ \E w \in ChatConns : WsClientClose(w)
    \/ \E w \in ChatConns : WsDisconnect(w)

\* one session at a time; every user starts conversations and asks for the inbox
\* badge
InboxNext ==
    \E p \in {1} :
        \/ \E u \in Users, r \in Users, msg \in Contents : StartConversation(p, u, r, msg)
        \/ StartInsert(p)
        \/ ServiceSendMessage(p)
        \/ \E u \in Users, cid \in ConvIds : MarkAsRead(p, u, cid)
        \/ MarkSelect(p)
        \/ \E u \in Users : GetUnreadCount(p, u)
        \/ Commit(p)
        \/ Respond(p)

\* two concurrent sessions of the two participants of one conversation, sending
\* and reading while the clock runs
RaceNext ==
    \/ \E p \in Procs, u \in Pair, r \in Pair : StartConversation(p, u, r, None)
    \/ \E p \in Procs : StartInsert(p)
    \/ \E p \in Procs, u \in Pair, t \in Texts : SendMessage(p, u, 1, Some(t))
    \/ \E p \in Procs : ServiceSendMessage(p)
    \/ \E p \in Procs, u \in Pair : MarkAsRead(p, u, 1)
    \/ \E p \in Procs, u \in Pair : GetConversation(p, u, 1)
    \/ \E p \in Procs : MarkSelect(p)
    \/ \E p \in Procs : Commit(p)
    \/ \E p \in Procs : Respond(p)
    \/ Tick

Spec == Init /\ [][Next]_vars
SpecRace == Init /\ [][RaceNext]_vars
SpecInbox == Init /\ [][InboxNext]_vars
SpecChat == Init /\ [][ChatNext]_vars
SpecWs == Init /\ [][WsNext]_vars
SpecService == Init /\ [][ServiceNext]_vars

\* ---- properties ----
\* no request is in flight
Quiescent == \A p \in Procs : sess[p].pc = "idle"

\* ids of the messages of conversation cid
MsgsOf(msgs, cid) == {m \in DOMAIN msgs : msgs[m].conversation_id = cid}

\* ids of the messages of conversation cid sent by uid
SentBy(msgs, cid, uid) == {m \in MsgsOf(msgs, cid) : msgs[m].sender_id = uid}

Participants(row) == {row.user1_id, row.user2_id}

\* C1: once every request has completed, a conversation none of whose messages
\* has been read shows for each participant an unread counter equal to the
\* number of messages the other participant has sent: no increment is lost.
C1_NoLostUpdate ==
    Quiescent =>
        \A c \in DOMAIN conversations :
            (\A m \in MsgsOf(messages, c) : ~messages[m].is_read) =>
                /\ conversations[c].unread_count_user2 =
                      Cardinality(SentBy(messages, c, conversations[c].user1_id))
                /\ conversations[c].unread_count_user1 =
                      Cardinality(SentBy(messages, c, conversations[c].user2_id))

\* C2: while a conversation is blocked no step adds a message to it or changes
\* its preview, whichever entry point the attempt came through.
C2_BlockedRejectsAppend ==
    [][\A c \in DOMAIN conversations :
          conversations[c].is_blocked =>
              /\ MsgsOf(messages', c) = MsgsOf(messages, c)
              /\ conversations'[c].last_message_text = conversations[c].last_message_text
              /\ conversations'[c].last_sender_id = conversations[c].last_sender_id]_vars

\* C3: at most one conversation row exists for each unordered pair of users.
C3_OneRowPerPair ==
    \A i, j \in DOMAIN conversations :
        Participants(conversations[i]) = Participants(conversations[j]) => i = j

\* C3 witness: the row of a pair is committed while a get_or_create of the same
\* pair from the other direction, which found no row, is about to insert.
C3_Witness ==
    \E p \in Procs, c \in DOMAIN conversations :
        /\ sess[p].pc = "insert"
        /\ sess[p].user = conversations[c].user2_id
        /\ sess[p].other = conversations[c].user1_id

\* the step in which the INSERT of get_or_create_conversation raises
InsertRaises(p) == sess[p].pc = "insert" /\ sess'[p].pc = "failed"

\* C4: a get_or_create between two distinct users never fails: no INSERT of
\* get_or_create_conversation raises on the uniqueness conflict.
C4_FirstContactSucceeds ==
    [][\A p \in Procs :
          (sess[p].user # sess[p].other /\ sess[p].other \in Users) => ~InsertRaises(p)]_vars

\* C5: a send_to_user call that has ended has not raised, whatever registers and
\* unregisters ran between its deliveries.
C5_SendNeverRaises ==
    \A s \in Senders : snd[s].pc = "done" => snd[s].raised = None

\* sum of the two unread counters of conversation cid (0 for no row)
UnreadSum(rows, cid) ==
    IF cid \in DOMAIN rows
    THEN rows[cid].unread_count_user1 + rows[cid].unread_count_user2 ELSE 0

\* C6: a step that makes a message row visible also makes visible the increment
\* of one unread counter of its conversation and the update of last-sender and
\* preview for that message.
C6_AppendIsAtomic ==
    [][\A m \in DOMAIN messages' \ DOMAIN messages :
          LET c == messages'[m].conversation_id
          IN  /\ c \in DOMAIN conversations'
              /\ UnreadSum(conversations', c) = UnreadSum(conversations, c) + 1
              /\ conversations'[c].last_sender_id = Some(messages'[m].sender_id)
              /\ conversations'[c].last_message_text =
                    Some(Preview(messages'[m].content))]_vars

\* the step in which session p commits a message it has appended
CommitsAppend(p) ==
    /\ sess[p].pc = "commit" /\ sess[p].new_msg # None /\ sess[p].obj # None
    /\ sess'[p].pc = "idle"

\* C7: when an append by a participant commits, the stored unread counter of the
\* other participant is one more than the counter the call read, and the stored
\* counter of the sender is what it was.
C7_BumpsOtherByOne ==
    [][\A p \in Procs :
          CommitsAppend(p) =>
              LET c == sess[p].conv
                  u == sess[p].user
                  seen == sess[p].seen[1]
                  o == get_other_user_id(seen, u)
              IN  /\ get_unread_count(conversations'[c], o) = get_unread_count(seen, o) + 1
                  /\ get_unread_count(conversations'[c], u) =
                        IF c \in DOMAIN conversations
                        THEN get_unread_count(conversations[c], u) ELSE 0]_vars

\* C7 witness: an append by user1 of a conversation is committed: its message is
\* stored, user2's counter is 1 and user1's is 0.
C7_Witness ==
    \E c \in DOMAIN conversations :
        /\ SentBy(messages, c, conversations[c].user1_id) # {}
        /\ conversations[c].unread_count_user2 = 1
        /\ conversations[c].unread_count_user1 = 0

\* the step in which session p commits a mark_as_read of a conversation it found
CommitsRead(p) ==
    /\ sess[p].pc = "commit" /\ sess[p].op = "read" /\ sess[p].obj # None
    /\ sess'[p].pc = "idle"

\* C8: when mark_as_read(c, reader) by a participant commits, every message of c
\* that was stored, unread and not sent by the reader when the call began is read
\* and has a read timestamp, and the reader's stored unread counter is 0.  (The
\* counter is asked to be 0 only when no message to the reader is left unread, so
\* that a send that commits during the call and is not marked does not count.)
C8_MarkReadZeroes ==
    [][\A p \in Procs :
          CommitsRead(p) =>
              /\ \A m \in sess[p].pre_unread :
                    messages'[m].is_read /\ messages'[m].read_at # None
              /\ UnreadFor(messages', sess[p].conv, sess[p].user) = {}
                    => get_unread_count(conversations'[sess[p].conv], sess[p].user) = 0]_vars

\* C9: the sender of every message row is a participant of its conversation.
C9_SenderIsParticipant ==
    \A m \in DOMAIN messages :
        /\ messages[m].conversation_id \in DOMAIN conversations
        /\ messages[m].sender_id \in
              Participants(conversations[messages[m].conversation_id])

\* session p holds the conversation get_or_create_conversation returned to it
HoldsConversation(p) ==
    sess[p].op = "start" /\ sess[p].pc \in {"send_message", "commit"}

\* every conversation row, committed or inserted and not yet committed: <<id, row>>
AllRows ==
    {<<c, conversations[c]>> : c \in DOMAIN conversations} \cup
    {<<sess[q].conv, sess[q].obj[1]>> : q \in {r \in Procs : sess[r].new_conv}}

\* C10: the id get_or_create returns for users a and b is the id of every row of
\* the pair {a, b}, so calls for (a, b) and for (b, a) return the same id.
C10_SameIdBothWays ==
    \A p \in Procs :
        HoldsConversation(p) =>
            /\ \A r \in AllRows :
                  Participants(r[2]) = {sess[p].user, sess[p].other} => r[1] = sess[p].conv
            /\ \A q \in Procs :
                  (HoldsConversation(q) /\ sess[q].user = sess[p].other
                                        /\ sess[q].other = sess[p].user)
                      => sess[q].conv = sess[p].conv

\* C10 witness: two sessions hold the results of get_or_create(a, b) and of
\* get_or_create(b, a).
C10_Witness ==
    \E p, q \in Procs :
        /\ HoldsConversation(p) /\ HoldsConversation(q)
        /\ sess[p].user < sess[p].other
        /\ sess[q].user = sess[p].other /\ sess[q].other = sess[p].user

\* C11: every conversation row, committed or just inserted, has the smaller user
\* id in the first participant slot: user1_id < user2_id.
C11_SmallerIdFirst ==
    \A r \in AllRows : r[2].user1_id < r[2].user2_id

\* C11 witness: a row was created for a request whose caller has the larger id.
C11_Witness ==
    \E p \in Procs :
        /\ sess[p].op = "start" /\ sess[p].new_conv
        /\ sess[p].user > sess[p].other
        /\ sess[p].obj[1].user1_id = sess[p].other

\* the registered connections of user u
LiveSet(u) ==
    IF u \in DOMAIN active_connections THEN active_connections[u].elems ELSE {}

\* call s of send_to_user leaves its loop and returns normally
SendCompletes(s) ==
    snd[s].pc = "loop" /\ snd'[s].pc = "done" /\ snd'[s].raised = None

\* C12: when send_to_user(u, event) returns, delivery was attempted on every
\* connection of u's live set, the live set is the previous one minus exactly the
\* connections whose delivery failed, and the call reports whether at least one
\* delivery succeeded.
C12_SendEvictsAndReports ==
    [][\A s \in Senders :
          SendCompletes(s) =>
              /\ LiveSet(snd[s].user) \subseteq snd'[s].visited
              /\ snd'[s].dead_connections \subseteq snd'[s].visited \ snd'[s].delivered
              /\ LiveSet(snd[s].user)' = LiveSet(snd[s].user) \ snd'[s].dead_connections
              /\ snd'[s].result = Some(snd'[s].delivered # {})]_vars

\* C13: the registry holds an entry for a user exactly when the user has at least
\* one registered connection: no user is mapped to an empty set.
C13_NoEmptyEntry ==
    \A u \in DOMAIN active_connections : active_connections[u].elems # {}

\* C14: a connection whose handler has terminated is in no user's live set.
C14_EndedIsUnregistered ==
    \A w \in Conns : ws[w].pc = "ended" => \A u \in WsUsers : w \notin LiveSet(u)

\* session p runs POST /conversations/{id}/messages and is past its checks
Sending(p) == sess[p].op = "send" /\ sess[p].pc \in {"send_message", "commit"}

\* the other participant of the conversation session p sends to
Recipient(p) == get_other_user_id(sess[p].seen[1], sess[p].user)

\* the elements of a list
Range(s) == {s[i] : i \in DOMAIN s}

\* C15: when a send_message request has persisted its message and ends, and the
\* recipient has a live connection, a send_to_user call for the recipient has been
\* made (the message event goes to the recipient's connections).
C15_DeliveryAfterPersist ==
    [][\A p \in Procs :
          (Sending(p) /\ CommitsAppend(p) /\ LiveSet(Recipient(p)) # {}) =>
              \E s \in Senders : snd'[s].pc # "idle" /\ snd'[s].user = Recipient(p)]_vars

\* C16: a send_message request to a recipient without a live connection does not
\* fail once it is past its checks, and when it ends its message is stored: every
\* list get_messages then returns to a participant contains it.
C16_OfflineSendPersists ==
    [][\A p \in Procs :
          (Sending(p) /\ LiveSet(Recipient(p)) = {}) =>
              /\ sess'[p].pc # "failed"
              /\ CommitsAppend(p) =>
                    \A u \in Participants(conversations'[sess[p].conv]) :
                        \A list \in get_messages(conversations', messages', sess[p].conv,
                                                  u, DefaultLimit, None) :
                            sess[p].new_msg[1].id \in Range(list)]_vars

\* C16 witness: a message sent through send_message to a recipient without a live
\* connection is inserted, and the request is about to end.
C16_Witness ==
    \E p \in Procs :
        /\ Sending(p) /\ sess[p].pc = "commit" /\ sess[p].new_msg # None
        /\ LiveSet(Recipient(p)) = {}

\* session p takes up a request of one of the kinds ops
Begins(p, ops) == sess[p].pc = "idle" /\ sess'[p].op \in ops

\* C17: a send, mark-read or block request whose caller is not a participant of
\* the conversation, or whose conversation does not exist, is rejected with an
\* error, and the store is left as it is.
C17_OutsiderRejected ==
    [][\A p \in Procs :
          (/\ Begins(p, {"send", "read", "block"})
           /\ get_conversation_by_id(conversations, sess'[p].conv, sess'[p].user) = None)
              => /\ sess'[p].pc = "failed"
                 /\ conversations' = conversations /\ messages' = messages]_vars

\* C20: a start_conversation request whose recipient is the caller is rejected with
\* 400; it inserts no conversation row and no message, and ends without a write.
C20_SelfConversationRejected ==
    [][\A p \in Procs :
          /\ (Begins(p, {"start"}) /\ sess'[p].user = sess'[p].other)
                => /\ sess'[p].pc = "failed" /\ sess'[p].result = "400"
                   /\ ~sess'[p].new_conv /\ sess'[p].new_msg = None
                   /\ conversations' = conversations /\ messages' = messages
                   /\ conv_seq' = conv_seq /\ msg_seq' = msg_seq
          /\ (sess[p].pc = "failed" /\ sess[p].result = "400" /\ sess'[p] # sess[p])
                => /\ sess'[p].pc = "idle"
                   /\ conversations' = conversations /\ messages' = messages]_vars

\* C20 witness: a request start_conversation(a, a) has been rejected with 400.
C20_Witness ==
    \E p \in Procs :
        /\ sess[p].op = "start" /\ sess[p].user = sess[p].other
        /\ sess[p].pc = "failed" /\ sess[p].result = "400"

\* C18: a get_messages call, or a GET of the conversation, by a user who is not a
\* participant of an existing conversation fails and returns none of its messages.
C18_OutsiderReadsNothing ==
    [][\A p \in Procs :
          (/\ Begins(p, {"get", "svc_get"})
           /\ sess'[p].conv \in DOMAIN conversations
           /\ sess'[p].user \notin Participants(conversations[sess'[p].conv]))
              => /\ sess'[p].pc = "failed"
                 /\ sess'[p].returned = <<>>]_vars

\* the messages of conversation cid a page may hold
Eligible(msgs, cid, before_id) ==
    {m \in MsgsOf(msgs, cid) :
        /\ ~msgs[m].is_deleted
        /\ before_id # None => m < before_id[1]}

\* message a comes before message b: by creation timestamp, then by id
Earlier(msgs, a, b) ==
    \/ msgs[a].created_at < msgs[b].created_at
    \/ msgs[a].created_at = msgs[b].created_at /\ a < b

\* C19: the list get_messages returns to a participant holds at most limit
\* messages of the conversation, none deleted, all with id < before_id when it is
\* given; they are the latest such messages by (created_at, id), in ascending
\* order of (created_at, id).
C19_PageIsLatestAscending ==
    [][\A p \in Procs :
          (Begins(p, {"get", "svc_get"}) /\ sess'[p].obj # None) =>
              LET s == sess'[p]
                  res == s.returned
                  E == Eligible(messages, s.conv, s.before_id)
              IN  /\ Len(res) = Min(s.limit, Cardinality(E))
                  /\ Range(res) \subseteq E
                  /\ \A m \in E \ Range(res), r \in Range(res) : Earlier(messages, m, r)
                  /\ \A i, j \in DOMAIN res :
                        i < j => Earlier(messages, res[i], res[j])]_vars

\* the step in which session p commits the conversation it has created
CommitsFirstContact(p) ==
    /\ sess[p].pc = "commit" /\ sess[p].op = "start" /\ sess[p].new_conv
    /\ sess'[p].pc = "idle"

\* C21: when start_conversation(a, b, initial message) for two users without a
\* conversation commits, there is exactly one conversation of the pair, with slots
\* (min(a, b), max(a, b)); it holds exactly one message, sent by a with the given
\* content; b's unread counter is 1, a's is 0, and it is not blocked.
C21_FirstContactResult ==
    [][\A p \in Procs :
          (CommitsFirstContact(p) /\ Truthy(sess[p].content)) =>
              LET a == sess[p].user
                  b == sess[p].other
                  c == sess[p].conv
                  row == conversations'[c]
              IN  /\ row.user1_id = Min(a, b) /\ row.user2_id = IF a < b THEN b ELSE a
                  /\ {i \in DOMAIN conversations' :
                         Participants(conversations'[i]) = {a, b}} = {c}
                  /\ Cardinality(MsgsOf(messages', c)) = 1
                  /\ \A m \in MsgsOf(messages', c) :
                        /\ messages'[m].sender_id = a
                        /\ messages'[m].content = sess[p].content
                        /\ ~messages'[m].is_read
                  /\ get_unread_count(row, b) = 1
                  /\ get_unread_count(row, a) = 0
                  /\ ~row.is_blocked]_vars

\* C21 witness: a first contact with an initial message, made by the user with the
\* larger id, is about to commit.
C21_Witness ==
    \E p \in Procs :
        /\ sess[p].pc = "commit" /\ sess[p].op = "start" /\ sess[p].new_conv
        /\ sess[p].new_msg # None /\ sess[p].user > sess[p].other

\* the conversations in which user u is a participant with a positive counter
UnreadConversations(u) ==
    {c \in DOMAIN conversations :
        u \in Participants(conversations[c]) /\ get_unread_count(conversations[c], u) > 0}

CommitsBlock(p) ==
    /\ sess[p].pc = "commit" /\ sess[p].op \in {"block", "svc_block"}
    /\ sess[p].obj # None /\ sess'[p].pc = "idle"

\* the flag and the blocker of row are what block_conversation(u, b) sets
BlockedAs(row, u, b) ==
    row.is_blocked = b /\ row.blocked_by = (IF b THEN Some(u) ELSE None)

\* C23: block_conversation(c, u, b) by a participant leaves the flag b and the
\* blocker of b; applied to a conversation that is already in that state (a second
\* application in a row) it leaves the conversation as it is.
C23_SetBlockedIdempotent ==
    [][\A p \in Procs :
          CommitsBlock(p) =>
              LET c == sess[p].conv
              IN  /\ BlockedAs(conversations'[c], sess[p].user, sess[p].block)
                  /\ BlockedAs(conversations[c], sess[p].user, sess[p].block)
                        => conversations'[c] = conversations[c]]_vars

\* C23 witness: user u has blocked a conversation and a second block call by u is
\* about to commit.
C23_Witness ==
    \E p \in Procs :
        /\ sess[p].pc = "commit" /\ sess[p].op \in {"block", "svc_block"}
        /\ sess[p].obj # None /\ sess[p].block
        /\ BlockedAs(conversations[sess[p].conv], sess[p].user, TRUE)

\* C24: the read state of a message is terminal: a message that is read stays
\* read, and its read timestamp stays what it is, whatever step follows.
C24_ReadIsTerminal ==
    [][\A m \in DOMAIN messages :
          messages[m].is_read =>
              /\ messages'[m].is_read
              /\ messages'[m].read_at = messages[m].read_at]_vars

\* send_message has returned the message of session p to its caller
Returned(p) == Sending(p) /\ sess[p].pc = "commit" /\ sess[p].new_msg # None

\* C25: a GET of conversation c by a participant that starts after a send_message
\* on c has returned its message returns that message (the page of 50 holds it).
C25_ReadAfterWrite ==
    [][\A q \in Procs :
          (Begins(q, {"get"}) /\ sess'[q].obj # None) =>
              \A p \in Procs \ {q} :
                  (Returned(p) /\ sess[p].conv = sess'[q].conv)
                      => sess[p].new_msg[1].id \in Range(sess'[q].returned)]_vars

\* the most recently created message of conversation c: the last by
\* (created_at, id)
LastMessage(c) ==
    CHOOSE m \in MsgsOf(messages, c) :
        \A n \in MsgsOf(messages, c) \ {m} : Earlier(messages, n, m)

\* C28: when no request is in flight, each conversation with a message has the
\* preview of its most recently created message and that message's sender as last
\* sender.
C28_PreviewIsLastMessage ==
    Quiescent =>
        \A c \in DOMAIN conversations :
            MsgsOf(messages, c) # {} =>
                /\ conversations[c].last_message_text =
                      Some(Preview(messages[LastMessage(c)].content))
                /\ conversations[c].last_sender_id = Some(messages[LastMessage(c)].sender_id)

\* the step in which session p commits a GET of a conversation it found
CommitsGet(p) ==
    /\ sess[p].pc = "commit" /\ sess[p].op = "get" /\ sess[p].obj # None
    /\ sess'[p].pc = "idle"

\* C30: a GET of a conversation marks as read only messages it returned: a message
\* that becomes read when the request commits is in the list the request fetched.
C30_MarksOnlyReturned ==
    [][\A p \in Procs :
          CommitsGet(p) =>
              \A m \in DOMAIN messages :
                  (~messages[m].is_read /\ messages'[m].is_read)
                      => m \in Range(sess[p].returned)]_vars

\* C26: when no request is in flight, each participant's unread counter of each
\* conversation is the number of unread messages the other participant sent in
\* it, and is not negative.
C26_CounterIsUnreadCount ==
    Quiescent =>
        \A c \in DOMAIN conversations :
            \A u \in Participants(conversations[c]) :
                /\ get_unread_count(conversations[c], u) >= 0
                /\ get_unread_count(conversations[c], u) =
                      Cardinality(UnreadFor(messages, c, u))

\* C27: the disconnect handler of a connection never ends in an error: it does
\* not raise on a user entry that is gone.
C27_DisconnectNeverRaises ==
    \A w \in Conns :
        (ws[w].pc = "ended" /\ ws[w].gone) => ws[w].raised = None

\* the columns of a conversation other than reader u's unread counter
OtherCols(row, u) ==
    ConvCols \ {IF u = row.user1_id THEN "unread_count_user1" ELSE "unread_count_user2"}

\* C29: when mark_as_read(c, reader) commits, the other participant's counter,
\* the block flag, the preview fields, every other conversation, the messages the
\* reader sent and the messages of other conversations are unchanged; the only
\* messages that change are unread messages of c sent to the reader.
C29_MarkReadFrame ==
    [][\A p \in Procs :
          CommitsRead(p) =>
              LET c == sess[p].conv
                  u == sess[p].user
              IN  /\ DOMAIN conversations' = DOMAIN conversations
                  /\ \A i \in DOMAIN conversations \ {c} :
                        conversations'[i] = conversations[i]
                  /\ \A col \in OtherCols(conversations[c], u) :
                        conversations'[c][col] = conversations[c][col]
                  /\ conversations'[c].user1_id = conversations[c].user1_id
                  /\ conversations'[c].user2_id = conversations[c].user2_id
                  /\ DOMAIN messages' = DOMAIN messages
                  /\ \A m \in DOMAIN messages :
                        messages'[m] # messages[m] =>
                            /\ messages[m].conversation_id = c
                            /\ messages[m].sender_id # u
                            /\ [messages'[m] EXCEPT !.is_read = FALSE, !.read_at = None]
                                 = [messages[m] EXCEPT !.is_read = FALSE, !.read_at = None]]_vars

\* C29 witness: a mark_as_read is about to commit in a conversation in which the
\* reader has unread messages to read and the other participant has some too.
C29_Witness ==
    \E p \in Procs :
        /\ sess[p].pc = "commit" /\ sess[p].op = "read" /\ sess[p].obj # None
        /\ sess[p].marked # {}
        /\ get_unread_count(conversations[sess[p].conv],
                            get_other_user_id(conversations[sess[p].conv], sess[p].user)) > 0
====
